---- MODULE Spec2Model ----
(***************************************************************************)
(* A model of clean_ghcr.py: one run of delete_pkgs against a package      *)
(* registry.  Python strings are TLA+ strings (TLC evaluates Len, \o and   *)
(* SubSeq on them), lists are sequences, a dict is a sequence of           *)
(* <<key, value>> pairs in insertion order.                                *)
(***************************************************************************)
EXTENDS Integers, Sequences, FiniteSets, TLC

(***************************************************************************)
(* Module constants of clean_ghcr.py                                       *)
(***************************************************************************)
API_ENDPOINT == "https://api.github.com"
PER_PAGE == 30
DOCKER_ENDPOINT == "ghcr.io/"

(***************************************************************************)
(* Python string primitives                                                *)
(***************************************************************************)
\* s[i] (1-based) as a one-character string
CharAt(s, i) == SubSeq(s, i, i)

\* str.startswith
StartsWith(s, p) == Len(s) >= Len(p) /\ SubSeq(s, 1, Len(p)) = p

\* printable ASCII in code point order: 32 .. 95, and 97 .. 126 (the grave
\* accent, 96, cannot be written in a TLA+ string and occurs in no input)
ASCII_LOW == " !\"#$%&'()*+,-./0123456789:;<=>?@ABCDEFGHIJKLMNOPQRSTUVWXYZ[\\]^_"
ASCII_HIGH == "abcdefghijklmnopqrstuvwxyz{|}~"

\* the code point of each character
CodePoints ==
  [c \in {CharAt(ASCII_LOW, j) : j \in 1..Len(ASCII_LOW)}
          \cup {CharAt(ASCII_HIGH, j) : j \in 1..Len(ASCII_HIGH)} |->
     IF \E j \in 1..Len(ASCII_LOW) : CharAt(ASCII_LOW, j) = c
     THEN 31 + (CHOOSE j \in 1..Len(ASCII_LOW) : CharAt(ASCII_LOW, j) = c)
     ELSE 96 + (CHOOSE j \in 1..Len(ASCII_HIGH) : CharAt(ASCII_HIGH, j) = c)]

\* ord(c)
Ord(c) == CodePoints[c]

\* chr(n)
Chr(n) == IF n <= 95 THEN CharAt(ASCII_LOW, n - 31) ELSE CharAt(ASCII_HIGH, n - 96)

\* a < b on str: code point order, a proper prefix sorts first
RECURSIVE StrLessFrom(_, _, _)
StrLessFrom(a, b, i) ==
  IF i > Len(b) THEN FALSE
  ELSE IF i > Len(a) THEN TRUE
  ELSE IF CharAt(a, i) = CharAt(b, i) THEN StrLessFrom(a, b, i + 1)
  ELSE Ord(CharAt(a, i)) < Ord(CharAt(b, i))

StrLess(a, b) == StrLessFrom(a, b, 1)

\* str.lower on ASCII
LowerChar(c) == IF Ord(c) >= 65 /\ Ord(c) <= 90 THEN Chr(Ord(c) + 32) ELSE c

RECURSIVE LowerFrom(_, _)
LowerFrom(s, i) ==
  IF i > Len(s) THEN "" ELSE LowerChar(CharAt(s, i)) \o LowerFrom(s, i + 1)

Lower(s) == LowerFrom(s, 1)

\* urllib.parse.quote with an empty safe set: letters, digits, underscore,
\* dot, hyphen and tilde are kept, every other ASCII character becomes %XX
HexDigit(n) == CharAt("0123456789ABCDEF", n + 1)

Unreserved(c) ==
  LET o == Ord(c) IN
    \/ o >= 48 /\ o <= 57
    \/ o >= 65 /\ o <= 90
    \/ o >= 97 /\ o <= 122
    \/ c \in {"_", ".", "-", "~"}

QuoteChar(c) ==
  IF Unreserved(c) THEN c
  ELSE "%" \o HexDigit(Ord(c) \div 16) \o HexDigit(Ord(c) % 16)

RECURSIVE QuoteFrom(_, _)
QuoteFrom(s, i) ==
  IF i > Len(s) THEN "" ELSE QuoteChar(CharAt(s, i)) \o QuoteFrom(s, i + 1)

Quote(s) == QuoteFrom(s, 1)

(***************************************************************************)
(* datetime: a naive datetime is a count of seconds since                  *)
(* 1970-01-01T00:00:00 of its own calendar; strftime renders it.           *)
(***************************************************************************)
Digit(d) == CharAt("0123456789", d + 1)
Pad2(n) == Digit((n \div 10) % 10) \o Digit(n % 10)
\* %Y: the year in decimal, as many digits as it has and no padding
RECURSIVE Year(_)
Year(n) == IF n < 10 THEN Digit(n) ELSE Year(n \div 10) \o Digit(n % 10)

\* proleptic Gregorian date <<y, m, d>> of a day count since 1970-01-01
CivilFromDays(days) ==
  LET z == days + 719468
      era == z \div 146097
      doe == z - era * 146097
      yoe == (doe - doe \div 1460 + doe \div 36524 - doe \div 146096) \div 365
      doy == doe - (365 * yoe + yoe \div 4 - yoe \div 100)
      mp == (5 * doy + 2) \div 153
      d == doy - (153 * mp + 2) \div 5 + 1
      m == IF mp < 10 THEN mp + 3 ELSE mp - 9
      y == yoe + era * 400 + (IF m <= 2 THEN 1 ELSE 0)
  IN <<y, m, d>>

\* strftime('%Y-%m-%dT%H:%M:%SZ')
Strftime(secs) ==
  LET days == secs \div 86400
      sod == secs % 86400
      ymd == CivilFromDays(days)
  IN Year(ymd[1]) \o "-" \o Pad2(ymd[2]) \o "-" \o Pad2(ymd[3]) \o "T"
       \o Pad2(sod \div 3600) \o ":" \o Pad2((sod % 3600) \div 60) \o ":"
       \o Pad2(sod % 60) \o "Z"


(***************************************************************************)
(* The registry's records, as the package API returns them                 *)
(***************************************************************************)
OWNER == "acme"
OWNER_TYPE == "org"

\* the API URL of a package: pkg["url"]
PkgUrl(name) ==
  API_ENDPOINT \o "/" \o OWNER_TYPE \o "s/" \o OWNER \o "/packages/container/" \o Quote(name)

\* a package record; repository is <<>> when the key is absent or null,
\* <<[name |-> ...]>> otherwise
Pkg(name, repo) == [name |-> name, url |-> PkgUrl(name), repository |-> repo]

\* a package version record; name is the digest
Ver(pkgname, id, digest, tags, updated_at) ==
  [id |-> id,
   name |-> digest,
   url |-> PkgUrl(pkgname) \o "/versions/" \o Digit(id),
   updated_at |-> updated_at,
   metadata |-> [container |-> [tags |-> tags]]]

\* requests.Response.ok: raise_for_status raises on 400..599 and on nothing else
Ok(status_code) == ~(400 <= status_code /\ status_code < 600)

(***************************************************************************)
(* State                                                                   *)
(***************************************************************************)
VARIABLES
  args,          \* the arguments of delete_pkgs
  machine,       \* [now, tz]: the UTC clock and the UTC offset of the host, in seconds
  registry,      \* what the package API and the image registry hold
  pc,            \* position of the run
  i,             \* index of the loop the run is in
  req,           \* locals of the running get_req: [url, params, result]
  pkgs,          \* get_list_packages: pkgs
  all_packages,  \* delete_pkgs: all_packages, a dict as a sequence of pairs
  deps_pkgs,     \* delete_pkgs: deps_pkgs
  timestamp,     \* delete_pkgs: timestamp ("" before it is computed)
  packages,      \* delete_pkgs: packages
  status,        \* delete_pkgs: status, built by the list comprehension
  trace,         \* every request sent and every subprocess run, in order
  warnings,      \* names logged as not existing
  num_deleted,   \* the count logged by "Deleted n package" (<<>> before)
  error          \* the exception that ended the run (<<>> if none)

vars == <<args, machine, registry, pc, i, req, pkgs, all_packages, deps_pkgs,
          timestamp, packages, status, trace, warnings, num_deleted, error>>


(***************************************************************************)
(* dict and list primitives                                                *)
(***************************************************************************)
\* an empty dict of request parameters, and an empty links mapping
Empty == <<>>

\* d[k] = v on a dict held as a function
DictPut(d, k, v) == [x \in DOMAIN d \cup {k} |-> IF x = k THEN v ELSE d[x]]

\* del d[k]
DictDel(d, k) == [x \in DOMAIN d \ {k} |-> d[x]]

\* d[k] = v on an insertion-ordered dict held as a sequence of <<key, value>>:
\* an existing key keeps its place and takes the new value
ODictSet(d, k, v) ==
  IF \E j \in 1..Len(d) : d[j][1] = k
  THEN [j \in 1..Len(d) |-> IF d[j][1] = k THEN <<k, v>> ELSE d[j]]
  ELSE Append(d, <<k, v>>)

\* [x for key in d for x in d[key]]
RECURSIVE FlattenFrom(_, _)
FlattenFrom(d, j) ==
  IF j > Len(d) THEN <<>> ELSE d[j][2] \o FlattenFrom(d, j + 1)

\* delete_pkgs, lines 165-167: every version of every package listed
Flatten(d) == FlattenFrom(d, 1)

\* x in seq
InSeq(x, seq) == \E j \in 1..Len(seq) : seq[j] = x

(***************************************************************************)
(* The package API: a listing is a chain of pages                          *)
(* [status, json, cursor]; a page that is not the last links to the next   *)
(* one, by page number or (cursor) by an opaque position.  A page          *)
(* parameter sent with the request selects the page, whatever the URL.     *)
(***************************************************************************)
PackagesBase == API_ENDPOINT \o "/" \o OWNER_TYPE \o "s/" \o OWNER \o "/packages"
VersionsBase(name) == PkgUrl(name) \o "/versions"

NextUrl(base, k, cursor) ==
  base \o (IF cursor THEN "?after=" ELSE "?page=") \o Digit(k)

DigitVal(c) == CHOOSE d \in 0..9 : Digit(d) = c

Position(base, url, params) ==
  IF "page" \in DOMAIN params THEN params["page"]
  ELSE IF url = base THEN 1
  ELSE DigitVal(CharAt(url, Len(url)))

Respond(chain, base, url, params) ==
  LET k == Position(base, url, params) IN
    IF k > Len(chain) THEN [status_code |-> 200, json |-> <<>>, links |-> Empty]
    ELSE [status_code |-> chain[k].status,
          json |-> chain[k].json,
          links |-> IF k < Len(chain) /\ Ok(chain[k].status)
                    THEN [next |-> [url |-> NextUrl(base, k + 1, chain[k].cursor)]]
                    ELSE Empty]

Matches(base, url) == url = base \/ StartsWith(url, base \o "?")

\* the response to requests.get(url, params=params) on a listing URL
HttpGet(url, params) ==
  IF Matches(PackagesBase, url)
  THEN Respond(registry.pkg_pages, PackagesBase, url, params)
  ELSE LET name == CHOOSE n \in DOMAIN registry.ver_pages : Matches(VersionsBase(n), url)
       IN Respond(registry.ver_pages[name], VersionsBase(name), url, params)

\* the package of the registry with this name, as a list of zero or one record
Named(name) == SelectSeq(registry.packages, LAMBDA p : p.name = name)

\* the status codes a lookup of one package by name can return
LookupStatuses(name) == IF Named(name) # <<>> THEN {200, 500} ELSE {404, 500}

(***************************************************************************)
(* clean_ghcr.py                                                           *)
(***************************************************************************)
get_url(path) == IF StartsWith(path, API_ENDPOINT) THEN path ELSE API_ENDPOINT \o path

\* one request or subprocess run, with the status code or exit code it got
Event(op, url, params, code) ==
  [op |-> op, url |-> url, params |-> params, status_code |-> code]

\* get_req, lines 47-53: the locals before the first request
GetReqEnter(path, params) ==
  LET p1 == DictPut(params, "page", 1)
      p2 == IF "per_page" \notin DOMAIN p1 THEN DictPut(p1, "per_page", PER_PAGE) ELSE p1
  IN [url |-> get_url(path), params |-> p2, result |-> <<>>]

\* the page parameter kept on the requests that follow a next link
NextParamsKeepPage(params) == params

\* the parameters of the request after one that returned a next link
NextParams(params) == IF "page" \in DOMAIN params THEN DictDel(params, "page") ELSE params

\* get_req, lines 54-68: one pass of the loop on the locals r
GetReqIter(r) ==
  LET response == HttpGet(r.url, r.params)
      result == r.result \o response.json
  IN IF ~Ok(response.status_code)
     THEN [kind |-> "raise", status_code |-> response.status_code, req |-> r]
     ELSE IF "next" \notin DOMAIN response.links
     THEN [kind |-> "return", status_code |-> response.status_code,
           req |-> [r EXCEPT !.result = result]]
     ELSE [kind |-> "loop", status_code |-> response.status_code,
           req |-> [url |-> response.links["next"].url,
                    params |-> NextParams(r.params),
                    result |-> result]]

NoReq == [url |-> "", params |-> Empty, result |-> <<>>]

\* the filters without the one on the deleted_ prefix
FilterPackagesKeepDeleted(found, repo_name) ==
  IF repo_name # ""
  THEN SelectSeq(found, LAMBDA pkg :
         pkg.repository # <<>> /\ Lower(pkg.repository[1].name) = repo_name)
  ELSE found

\* get_list_packages, lines 97-103: the filters on the packages found
FilterPackages(found, repo_name) ==
  LET live == SelectSeq(found, LAMBDA pkg : ~StartsWith(pkg.name, "deleted_")) IN
    IF repo_name # ""
    THEN SelectSeq(live, LAMBDA pkg :
           pkg.repository # <<>> /\ Lower(pkg.repository[1].name) = repo_name)
    ELSE live

\* delete_pkgs, line 158
Filtered == args.untagged_only \/ args.older > 0

\* pkg_ver["metadata"]["container"]["tags"] is truthy
Tagged(pkg_ver) == pkg_ver.metadata.container.tags # <<>>

\* tagged_pkgs as it would be if it were taken from the versions left after
\* the untagged filter
TaggedPkgsAfterUntagged(all) ==
  [j \in 1..Len(all) |->
     <<all[j][1],
       SelectSeq(IF args.untagged_only
                 THEN SelectSeq(all[j][2], LAMBDA v : ~Tagged(v))
                 ELSE all[j][2],
                 Tagged)>>]

\* delete_pkgs, lines 171-177: tagged_pkgs
TaggedPkgs(all) ==
  [j \in 1..Len(all) |-> <<all[j][1], SelectSeq(all[j][2], Tagged)>>]

\* get_deps_pkgs, lines 126-128: the images inspected, in order
RECURSIVE ImagesOf(_, _, _)
ImagesOf(pkg, vers, j) ==
  IF j > Len(vers) THEN <<>>
  ELSE <<DOCKER_ENDPOINT \o args.owner \o "/" \o pkg \o "@" \o vers[j].name>>
         \o ImagesOf(pkg, vers, j + 1)

RECURSIVE ImagesFrom(_, _)
ImagesFrom(tagged, j) ==
  IF j > Len(tagged) THEN <<>>
  ELSE ImagesOf(tagged[j][1], tagged[j][2], 1) \o ImagesFrom(tagged, j + 1)

Images == ImagesFrom(TaggedPkgs(all_packages), 1)

\* docker manifest inspect: the document the registry holds for the image
\* (the digest follows the @)
DigestOf(image) ==
  LET at == CHOOSE j \in 1..Len(image) : CharAt(image, j) = "@"
  IN SubSeq(image, at + 1, Len(image))

ManifestDoc(image) == registry.manifests[DigestOf(image)]

\* get_image_deps, lines 135-136
ImageDeps(data) ==
  IF "manifests" \in DOMAIN data
  THEN [j \in 1..Len(data.manifests) |-> data.manifests[j].digest]
  ELSE <<>>

\* delete_pkgs, lines 181-184
DropDeps(pkg_vers, deps) == SelectSeq(pkg_vers, LAMBDA pkg : ~InSeq(pkg.name, deps))

\* the untagged filter with its test inverted
KeepTagged(pkg_vers) == SelectSeq(pkg_vers, LAMBDA pkg : Tagged(pkg))

\* delete_pkgs, lines 188-191
KeepUntagged(pkg_vers) == SelectSeq(pkg_vers, LAMBDA pkg : ~Tagged(pkg))

\* delete_pkgs, line 197: datetime.now() is the host's local time
Cutoff(older) == Strftime(machine.now + machine.tz - older)

\* the age test as less-than-or-equal
IsOlderOrEqual(updated_at, cutoff) == updated_at = cutoff \/ StrLess(updated_at, cutoff)

\* delete_pkgs, line 200
IsOlder(updated_at, cutoff) == StrLess(updated_at, cutoff)

\* delete_pkgs, lines 198-201
KeepOlder(pkg_vers, cutoff) ==
  SelectSeq(pkg_vers, LAMBDA pkg : IsOlder(pkg.updated_at, cutoff))

\* delete_pkgs, lines 181-202: the candidates, from the flattened listing
\* and the deps
Candidates(p0, deps) ==
  LET p1 == IF args.except_untagged_multiplatform THEN DropDeps(p0, deps) ELSE p0
      p2 == IF args.untagged_only THEN KeepUntagged(p1) ELSE p1
      p3 == IF args.older > 0 THEN KeepOlder(p2, Cutoff(args.older)) ELSE p2
  IN p3


(***************************************************************************)
(* The run of delete_pkgs, one action per request, subprocess or return    *)
(***************************************************************************)
Raise(kind, detail) ==
  /\ pc' = "raised"
  /\ error' = <<kind, detail>>

\* get_list_packages returns (lines 97-103) and delete_pkgs goes on: to the
\* version listing of the first package (lines 113-116), or, in simple mode
\* (lines 204-212), to the deletion of the packages themselves
ReturnPackages(found) ==
  LET kept == FilterPackages(found, args.repo_name) IN
    /\ pkgs' = kept
    /\ i' = 1
    /\ IF Filtered
       THEN IF kept = <<>>
            THEN /\ packages' = Flatten(all_packages)
                 /\ pc' = "resolve"
                 /\ req' = NoReq
            ELSE /\ packages' = packages
                 /\ pc' = "versions"
                 /\ req' = GetReqEnter(kept[1].url \o "/versions", Empty)
       ELSE /\ packages' = kept
            /\ pc' = "delete"
            /\ req' = NoReq

\* delete_pkgs is called: get_list_packages starts (lines 72-74, 90)
Start ==
  /\ pc = "start"
  /\ IF args.package_names # <<>>
     THEN pc' = "lookup" /\ req' = NoReq
     ELSE /\ pc' = "list_packages"
          /\ req' = GetReqEnter("/" \o args.owner_type \o "s/" \o args.owner \o "/packages",
                                [package_type |-> "container"])
  /\ i' = 1
  /\ UNCHANGED <<args, machine, registry, pkgs, all_packages, deps_pkgs, timestamp,
                 packages, status, trace, warnings, num_deleted, error>>

\* get_list_packages, lines 74-88: the lookup of one package by name
LookupUrl(package_name) ==
  get_url("/" \o args.owner_type \o "s/" \o args.owner \o "/packages/container/"
          \o Quote(package_name))

\* a lookup that raises on every non-success response, 404 included
LookupOutcomeStrict(status_code) == IF Ok(status_code) THEN "append" ELSE "raise"

\* lines 83-88: what a lookup's response leads to
LookupOutcome(status_code) ==
  IF Ok(status_code) THEN "append"
  ELSE IF status_code = 404 THEN "continue"
  ELSE "raise"

Lookup ==
  /\ pc = "lookup"
  /\ i <= Len(args.package_names)
  /\ LET package_name == args.package_names[i] IN
     \E status_code \in LookupStatuses(package_name) :
       /\ trace' = Append(trace, Event("GET", LookupUrl(package_name), Empty, status_code))
       /\ IF LookupOutcome(status_code) = "raise"
          THEN /\ Raise("response", status_code)
               /\ UNCHANGED <<i, req, pkgs, packages, warnings>>
          ELSE LET found == IF LookupOutcome(status_code) = "append"
                            THEN pkgs \o Named(package_name) ELSE pkgs IN
               /\ warnings' = IF LookupOutcome(status_code) = "append" THEN warnings
                              ELSE Append(warnings, package_name)
               /\ error' = error
               /\ IF i < Len(args.package_names)
                  THEN /\ pkgs' = found
                       /\ i' = i + 1
                       /\ UNCHANGED <<pc, req, packages>>
                  ELSE ReturnPackages(found)
  /\ UNCHANGED <<args, machine, registry, all_packages, deps_pkgs, timestamp,
                 status, num_deleted>>

\* get_list_packages, lines 90-93: one request of the paginated listing
ListPackages ==
  /\ pc = "list_packages"
  /\ LET it == GetReqIter(req) IN
     /\ trace' = Append(trace, Event("GET", req.url, req.params, it.status_code))
     /\ CASE it.kind = "raise" ->
               /\ Raise("response", it.status_code)
               /\ UNCHANGED <<i, req, pkgs, packages>>
          [] it.kind = "loop" ->
               /\ req' = it.req
               /\ UNCHANGED <<pc, error, i, pkgs, packages>>
          [] it.kind = "return" ->
               /\ ReturnPackages(it.req.result)
               /\ error' = error
  /\ UNCHANGED <<args, machine, registry, all_packages, deps_pkgs, timestamp,
                 status, warnings, num_deleted>>

\* get_all_package_versions, lines 113-116: one request of the version
\* listing of pkgs[i]; after the last listing delete_pkgs flattens what was
\* listed into packages (lines 165-167)
ListVersions ==
  /\ pc = "versions"
  /\ LET it == GetReqIter(req) IN
     /\ trace' = Append(trace, Event("GET", req.url, req.params, it.status_code))
     /\ CASE it.kind = "raise" ->
               /\ Raise("response", it.status_code)
               /\ UNCHANGED <<i, req, all_packages, packages>>
          [] it.kind = "loop" ->
               /\ req' = it.req
               /\ UNCHANGED <<pc, error, i, all_packages, packages>>
          [] it.kind = "return" ->
               /\ all_packages' = ODictSet(all_packages, pkgs[i].name, it.req.result)
               /\ error' = error
               /\ IF i < Len(pkgs)
                  THEN /\ i' = i + 1
                       /\ req' = GetReqEnter(pkgs[i + 1].url \o "/versions", Empty)
                       /\ pc' = pc
                       /\ packages' = packages
                  ELSE /\ i' = 1
                       /\ req' = NoReq
                       /\ pc' = "resolve"
                       /\ packages' = Flatten(all_packages')
  /\ UNCHANGED <<args, machine, registry, pkgs, deps_pkgs, timestamp,
                 status, warnings, num_deleted>>

\* get_deps_pkgs stopping one image short
InspectingSkipLast == args.except_untagged_multiplatform /\ i < Len(Images)

\* whether get_deps_pkgs still has an image to inspect (lines 170, 126-129)
Inspecting == args.except_untagged_multiplatform /\ i <= Len(Images)

\* get_image_deps on the next image: docker manifest inspect exits 0 or not
\* (lines 133-145)
Inspect ==
  /\ pc = "resolve"
  /\ Inspecting
  /\ \E returncode \in {0, 1} :
       /\ trace' = Append(trace, Event("INSPECT", Images[i], Empty, returncode))
       /\ IF returncode # 0
          THEN /\ Raise("manifest", returncode)
               /\ UNCHANGED <<i, deps_pkgs>>
          ELSE /\ deps_pkgs' = deps_pkgs \o ImageDeps(ManifestDoc(Images[i]))
               /\ i' = i + 1
               /\ UNCHANGED <<pc, error>>
  /\ UNCHANGED <<args, machine, registry, req, pkgs, all_packages, timestamp,
                 packages, status, warnings, num_deleted>>

\* delete_pkgs, lines 179-202: get_deps_pkgs has returned, or was not called,
\* and the flattened listing is narrowed to the candidates
Resolve ==
  /\ pc = "resolve"
  /\ ~Inspecting
  /\ packages' = Candidates(packages, deps_pkgs)
  /\ timestamp' = IF args.older > 0 THEN Cutoff(args.older) ELSE timestamp
  /\ pc' = "delete"
  /\ i' = 1
  /\ UNCHANGED <<args, machine, registry, req, pkgs, all_packages, deps_pkgs,
                 status, trace, warnings, num_deleted, error>>

\* the status codes a delete can return
DeleteStatuses == {204, 404}

\* a loop that stops at the first delete that fails
AfterDeleteStop(ok) == IF ok THEN i + 1 ELSE Len(packages) + 1

\* line 212: the comprehension goes on to the next candidate whatever
\* del_req returned
AfterDelete(ok) == i + 1

\* delete_pkgs, line 212, and del_req: the delete of packages[i]
Delete ==
  /\ pc = "delete"
  /\ i <= Len(packages)
  /\ \E status_code \in DeleteStatuses :
       /\ trace' = Append(trace, Event("DELETE", get_url(packages[i].url), Empty, status_code))
       /\ status' = Append(status, Ok(status_code))
       /\ i' = AfterDelete(Ok(status_code))
  /\ UNCHANGED <<args, machine, registry, pc, req, pkgs, all_packages, deps_pkgs,
                 timestamp, packages, warnings, num_deleted, error>>

\* delete_pkgs, lines 213-221: the counts, the report and the final raise
Report ==
  /\ pc = "delete"
  /\ i > Len(packages)
  /\ LET len_ok == Len(SelectSeq(status, LAMBDA ok : ok))
         len_fail == Len(status) - len_ok
     IN /\ num_deleted' = <<len_ok>>
        /\ IF len_fail > 0
           THEN Raise("fail delete", len_fail)
           ELSE pc' = "done" /\ error' = error
  /\ UNCHANGED <<args, machine, registry, i, req, pkgs, all_packages, deps_pkgs,
                 timestamp, packages, status, trace, warnings>>

Next ==
  \/ Start
  \/ Lookup
  \/ ListPackages
  \/ ListVersions
  \/ Inspect
  \/ Resolve
  \/ Delete
  \/ Report


(***************************************************************************)
(* The inputs of a run: arguments, host clock and registry contents        *)
(***************************************************************************)
\* the longest chain of pages a listing is cut into
MaxPages == 2

\* the arguments, as get_args leaves them (names and repository lower-cased)
Args(names, repo, untagged, except, older) ==
  [owner |-> OWNER, repo_name |-> repo, owner_type |-> OWNER_TYPE,
   package_names |-> names, untagged_only |-> untagged,
   except_untagged_multiplatform |-> except, older |-> older]

\* 2024-06-01T00:00:00Z
Base == 19875 * 86400
Hour == 60 * 60

D1 == "sha256:aa"
D2 == "sha256:bb"
D3 == "sha256:cc"
Digests == {D1, D2, D3}

Latest == <<"latest">>
TagChoices == {<<>>, Latest}

\* the names of the packages the registry holds
RegNames == {"api", "deleted_api", "web"}

RegPackages ==
  <<Pkg("api", <<[name |-> "App"]>>),
    Pkg("deleted_api", <<[name |-> "App"]>>),
    Pkg("web", <<>>)>>

ApiVersions(tags, times) ==
  <<Ver("api", 1, D1, tags[1], Strftime(times[1])),
    Ver("api", 2, D2, tags[2], Strftime(times[2])),
    Ver("api", 3, D3, tags[3], Strftime(times[3]))>>

\* web holds the image D2 too, untagged
WebVersions == <<Ver("web", 1, D2, <<>>, Strftime(Base - 2 * Hour))>>

\* manifest documents: an image index lists its platform images under
\* manifests, a single-platform image has no such key
ImageIndex(ds) ==
  [schemaVersion |-> 2,
   manifests |-> [j \in 1..Len(ds) |-> [digest |-> ds[j], platform |-> "linux"]]]
SingleImage == [schemaVersion |-> 2, config |-> "sha256:cf"]

ManifestChoices ==
  {[d \in Digests |-> SingleImage],
   [d \in Digests |-> IF d = D1 THEN ImageIndex(<<D2, D3>>) ELSE SingleImage],
   [d \in Digests |-> IF d = D3 THEN ImageIndex(<<D2>>) ELSE SingleImage]}

Page(json, cursor) == [status |-> 200, json |-> json, cursor |-> cursor]
FailPage == [status |-> 500, json |-> <<>>, cursor |-> FALSE]

\* the ways to cut a listing into at most n pages
RECURSIVE Splits(_, _)
Splits(L, n) ==
  IF n <= 1 THEN {<<L>>}
  ELSE {<<L>>} \cup
       UNION {{<<SubSeq(L, 1, k)>> \o rest : rest \in Splits(SubSeq(L, k + 1, Len(L)), n - 1)}
              : k \in 1..(Len(L) - 1)}

\* a listing that moved by one record between two requests: every page
\* after the first starts with the last record of the page before
Overlap(split) ==
  [k \in 1..Len(split) |->
     IF k = 1 THEN split[1] ELSE <<split[k - 1][Len(split[k - 1])]>> \o split[k]]

Failing(chain) == [chain EXCEPT ![Len(chain)] = FailPage]

Chains(L) ==
  LET splits == Splits(L, MaxPages)
      cuts == splits \cup {Overlap(sp) : sp \in splits}
      good == {[k \in 1..Len(sp) |-> Page(sp[k], c)] : sp \in cuts, c \in BOOLEAN}
  IN good \cup {Failing(ch) : ch \in good}

OnePage(L) == <<Page(L, FALSE)>>

Registry(pkg_pages, api_pages, web_pages, manifests) ==
  [packages |-> RegPackages,
   pkg_pages |-> pkg_pages,
   ver_pages |-> [n \in RegNames |->
                    IF n = "api" THEN api_pages
                    ELSE IF n = "web" THEN web_pages ELSE OnePage(<<>>)],
   manifests |-> manifests]

Machine(now, tz) == [now |-> now, tz |-> tz]

World(a, m, r) == [args |-> a, machine |-> m, registry |-> r]

\* every combination of the filters over every tagging of three versions of
\* one package, listed on two pages, and every manifest choice
FilterWorlds ==
  {World(Args(<<>>, "", u, e, o),
         Machine(Base, 0),
         Registry(OnePage(RegPackages),
                  LET vs == ApiVersions(tags, <<Base - 2 * Hour, t2, Base - Hour>>)
                  IN <<Page(SubSeq(vs, 1, 2), FALSE), Page(SubSeq(vs, 3, 3), FALSE)>>,
                  OnePage(WebVersions), mf))
   : u \in BOOLEAN, e \in BOOLEAN, o \in {0, Hour},
     tags \in [1..3 -> TagChoices], t2 \in {Base - Hour - 1, Base},
     mf \in ManifestChoices}

\* the age filter on hosts in three time zones, around the cutoff
AgeWorlds ==
  {World(Args(<<"api">>, "", u, FALSE, o),
         Machine(now, tz),
         Registry(OnePage(RegPackages),
                  OnePage(ApiVersions(<<<<>>, <<>>, Latest>>, <<t1, t2, Base - 3 * Hour>>)),
                  OnePage(WebVersions), [d \in Digests |-> SingleImage]))
   : u \in BOOLEAN, o \in {1, Hour}, now \in {Base, Base + 1},
     tz \in {-5 * Hour, 0, 2 * Hour},
     t1 \in {Base - Hour - 1, Base - Hour, Base - Hour + 1},
     t2 \in {Base - Hour - 1, Base - 1, Base + Hour}}

NameChoices ==
  {<<"api">>, <<"ghost">>, <<"api", "api">>, <<"ghost", "web">>,
   <<"deleted_api", "api">>, <<"web", "api">>}

\* package lookups by name, and paginated listings of packages and of
\* versions cut, overlapped and failed in every way
ListWorlds ==
  LET vs == ApiVersions(<<Latest, <<>>, <<>>>>, <<Base, Base - 2 * Hour, Base - 2 * Hour>>)
      mf == [d \in Digests |-> SingleImage]
      modes == {<<FALSE, FALSE, 0>>, <<FALSE, TRUE, 0>>, <<FALSE, FALSE, -1>>,
                <<TRUE, FALSE, 0>>, <<TRUE, TRUE, 0>>}
  IN {World(Args(names, repo, md[1], md[2], md[3]), Machine(Base, 0),
            Registry(OnePage(RegPackages), OnePage(vs), OnePage(WebVersions), mf))
      : names \in NameChoices, repo \in {"", "app"}, md \in modes}
     \cup
     {World(Args(<<>>, repo, md[1], md[2], md[3]), Machine(Base, 0),
            Registry(pc_, OnePage(vs), OnePage(WebVersions), mf))
      : repo \in {"", "app"}, md \in modes, pc_ \in Chains(RegPackages)}
     \cup
     {World(Args(<<>>, "app", md[1], md[2], md[3]), Machine(Base, 0),
            Registry(OnePage(RegPackages), vc, OnePage(WebVersions), mf))
      : md \in modes, vc \in Chains(vs)}

Worlds == FilterWorlds \cup AgeWorlds \cup ListWorlds

Init ==
  /\ \E w \in Worlds :
       /\ args = w.args
       /\ machine = w.machine
       /\ registry = w.registry
  /\ pc = "start"
  /\ i = 1
  /\ req = NoReq
  /\ pkgs = <<>>
  /\ all_packages = <<>>
  /\ deps_pkgs = <<>>
  /\ timestamp = ""
  /\ packages = <<>>
  /\ status = <<>>
  /\ trace = <<>>
  /\ warnings = <<>>
  /\ num_deleted = <<>>
  /\ error = <<>>

Spec == Init /\ [][Next]_vars


(***************************************************************************)
(* What the registry holds and what the run sent, for the properties       *)
(***************************************************************************)
RECURSIVE ConcatPages(_, _)
ConcatPages(chain, j) ==
  IF j > Len(chain) THEN <<>> ELSE chain[j].json \o ConcatPages(chain, j + 1)

\* the records of a whole listing, page after page
Listing(chain) == ConcatPages(chain, 1)

Range(seq) == {seq[j] : j \in 1..Len(seq)}

\* the versions the registry lists for the packages the run kept
ListedVersions == UNION {Range(Listing(registry.ver_pages[pkg.name])) : pkg \in Range(pkgs)}

\* the digests the manifests of the listed tagged versions reference
ProtectedDigests ==
  UNION {Range(ImageDeps(registry.manifests[v.name])) : v \in {t \in ListedVersions : Tagged(t)}}

Sent(op) == SelectSeq(trace, LAMBDA e : e.op = op)
DeleteUrls == [j \in 1..Len(Sent("DELETE")) |-> Sent("DELETE")[j].url]
IsLookup(e) == e.op = "GET" /\ DOMAIN e.params = {}
IsListing(e) == e.op = "GET" /\ DOMAIN e.params # {}

\* the deletion loop has run to its end and the count is reported
Reported == num_deleted # <<>>

\* the candidates are resolved
Resolved == Filtered /\ (pc = "delete" \/ Reported)

\* the instant a YYYY-MM-DDTHH:MM:SSZ string names, in seconds since 1970
Num(s, a, b) ==
  LET RECURSIVE N(_, _)
      N(j, acc) == IF j > b THEN acc ELSE N(j + 1, acc * 10 + DigitVal(CharAt(s, j)))
  IN N(a, 0)

DaysFromCivil(y0, m, d) ==
  LET y == IF m <= 2 THEN y0 - 1 ELSE y0
      era == y \div 400
      yoe == y - era * 400
      doy == (153 * (IF m > 2 THEN m - 3 ELSE m + 9) + 2) \div 5 + d - 1
      doe == yoe * 365 + yoe \div 4 - yoe \div 100 + doy
  IN era * 146097 + doe - 719468

InstantOf(s) ==
  DaysFromCivil(Num(s, 1, 4), Num(s, 6, 7), Num(s, 9, 10)) * 86400
    + Num(s, 12, 13) * 3600 + Num(s, 15, 16) * 60 + Num(s, 18, 19)

\* a listed version passes the filters that come before the age filter
PassesEarlier(v) ==
  /\ args.except_untagged_multiplatform => v.name \notin ProtectedDigests
  /\ args.untagged_only => ~Tagged(v)


(***************************************************************************)
(* Properties                                                              *)
(***************************************************************************)

\* C1: with except_untagged_multiplatform on, whatever untagged_only and
\* older are, no delete is sent for a listed version whose digest the
\* manifest of a listed tagged version references; with the option off, an
\* untagged version so referenced is a candidate whenever it passes the
\* age filter.
C1_DependencyProtection ==
  /\ args.except_untagged_multiplatform =>
       \A v \in ListedVersions :
         v.name \in ProtectedDigests => ~InSeq(v.url, DeleteUrls)
  /\ (~args.except_untagged_multiplatform /\ Resolved) =>
       \A v \in ListedVersions :
         ( /\ v.name \in ProtectedDigests
           /\ ~Tagged(v)
           /\ args.older > 0 => InstantOf(v.updated_at) < InstantOf(timestamp) )
         => InSeq(v, packages)

\* C1 happens: protection is on, a listed untagged version is referenced by
\* a tagged one, and the run deleted other versions and finished
C1_Witness ==
  /\ args.except_untagged_multiplatform
  /\ args.untagged_only
  /\ pc = "done"
  /\ Len(DeleteUrls) > 0
  /\ \E v \in ListedVersions : v.name \in ProtectedDigests /\ ~Tagged(v)

\* C1, option off: a referenced untagged version was deleted
C1_WitnessOff ==
  /\ ~args.except_untagged_multiplatform
  /\ pc = "done"
  /\ \E v \in ListedVersions :
       v.name \in ProtectedDigests /\ ~Tagged(v) /\ InSeq(v.url, DeleteUrls)

\* C2: with untagged_only no delete is sent for a listed version that has a
\* tag; with untagged_only the only filter, the versions deleted are exactly
\* the listed versions without a tag, over all the packages.
C2_UntaggedOnly ==
  /\ args.untagged_only =>
       \A v \in ListedVersions : Tagged(v) => ~InSeq(v.url, DeleteUrls)
  /\ ( /\ args.untagged_only
       /\ args.older = 0
       /\ ~args.except_untagged_multiplatform
       /\ Reported )
     => Range(DeleteUrls) = {v.url : v \in {u \in ListedVersions : ~Tagged(u)}}

\* C2 happens: untagged_only alone, two packages listed, tagged and untagged
\* versions among them, the deletion loop finished
C2_Witness ==
  /\ args.untagged_only
  /\ args.older = 0
  /\ ~args.except_untagged_multiplatform
  /\ Reported
  /\ Len(pkgs) = 2
  /\ \E v \in ListedVersions : Tagged(v)
  /\ Len(DeleteUrls) >= 2

\* C3: with older > 0 the age filter is a strict less-than against the
\* cutoff string: a version updated at the cutoff is not a candidate, one
\* updated a second earlier that passed the earlier filters is, and no
\* version updated at or after the cutoff is deleted.
C3_StrictCutoff ==
  (args.older > 0 /\ Resolved) =>
    \A v \in ListedVersions :
      /\ v.updated_at = timestamp => ~InSeq(v, packages)
      /\ (PassesEarlier(v) /\ InstantOf(v.updated_at) = InstantOf(timestamp) - 1)
           => InSeq(v, packages)
      /\ InstantOf(v.updated_at) >= InstantOf(timestamp) => ~InSeq(v.url, DeleteUrls)

\* C3 happens: one listed version is updated exactly at the cutoff, another
\* a second before it, and the second one was deleted
C3_Witness ==
  /\ args.older > 0
  /\ Reported
  /\ \E v \in ListedVersions : v.updated_at = timestamp /\ PassesEarlier(v)
  /\ \E v \in ListedVersions :
       /\ InstantOf(v.updated_at) = InstantOf(timestamp) - 1
       /\ InSeq(v.url, DeleteUrls)

\* C4: the cutoff is the current UTC time minus older seconds: on a host in
\* any time zone, a version that passed the earlier filters is a candidate
\* exactly when its updated_at instant is before (UTC now - older).
C4_UtcCutoff ==
  (args.older > 0 /\ Resolved) =>
    \A v \in ListedVersions :
      PassesEarlier(v) =>
        (InSeq(v, packages) <=> InstantOf(v.updated_at) < machine.now - args.older)

\* C4 restricted to hosts whose local time is UTC
C4_OnUtcHost ==
  (args.older > 0 /\ Resolved /\ machine.tz = 0) =>
    \A v \in ListedVersions :
      PassesEarlier(v) =>
        (InSeq(v, packages) <=> InstantOf(v.updated_at) < machine.now - args.older)

\* C5: the deletion loop sends a delete for every candidate whatever the
\* earlier deletes returned; the run raises exactly when a delete returned a
\* non-success status, after every candidate was attempted and the count
\* reported; deleted + failed = candidates.
C5_DeleteAll ==
  LET fails == Len(SelectSeq(Sent("DELETE"), LAMBDA e : ~Ok(e.status_code))) IN
    /\ pc = "delete" => Len(DeleteUrls) = i - 1
    /\ Reported =>
         /\ DeleteUrls = [j \in 1..Len(packages) |-> packages[j].url]
         /\ (pc = "raised") <=> (fails > 0)
         /\ (pc = "done") <=> (fails = 0)
         /\ fails > 0 => error = <<"fail delete", fails>>
         /\ num_deleted[1] + fails = Len(packages)
    /\ (error # <<>> /\ error[1] = "fail delete") =>
         Reported /\ Len(DeleteUrls) = Len(packages)

\* C5 happens: the first delete failed, a later one succeeded, and the run
\* raised after the report
C5_Witness ==
  /\ Reported
  /\ pc = "raised"
  /\ Len(status) >= 3
  /\ ~status[1]
  /\ status[Len(status)]


\* C6: in one run no delete target URL is sent a delete twice, also when
\* package_names repeats a name or a listing returns a record on two pages.
C6_AtMostOnce ==
  \A j, k \in 1..Len(DeleteUrls) : j # k => DeleteUrls[j] # DeleteUrls[k]

\* C7: a 404 on a lookup by name skips the name with a warning and the
\* lookups go on, so that names that all do not exist give an empty package
\* list and no error; any other non-success response to a lookup, and any
\* non-success response to a listing request, raises at once.
C7_LookupFailures ==
  /\ \A k \in 1..Len(trace) :
       LET e == trace[k] IN
         /\ (IsLookup(e) /\ e.status_code = 404) =>
              /\ e.url = LookupUrl(args.package_names[k])
              /\ InSeq(args.package_names[k], warnings)
              /\ k = Len(trace) =>
                   /\ error = <<>>
                   /\ k < Len(args.package_names) => pc = "lookup" /\ i = k + 1
         /\ (e.op = "GET" /\ ~Ok(e.status_code) /\ ~(IsLookup(e) /\ e.status_code = 404)) =>
              /\ k = Len(trace)
              /\ pc = "raised"
              /\ error = <<"response", e.status_code>>
  /\ ( /\ args.package_names # <<>>
       /\ Len(trace) >= Len(args.package_names)
       /\ \A k \in 1..Len(args.package_names) : trace[k].status_code = 404 )
     => /\ pkgs = <<>>
        /\ warnings = args.package_names
        /\ pc # "raised"
        /\ Len(trace) = Len(args.package_names)

\* C7 happens: the first name does not exist, the second does, and the run
\* went on to delete the second
C7_Witness ==
  /\ Len(args.package_names) = 2
  /\ Len(trace) > 0
  /\ trace[1].status_code = 404
  /\ warnings = <<args.package_names[1]>>
  /\ Len(pkgs) = 1
  /\ pc = "done"
  /\ Len(DeleteUrls) > 0

\* C7, only names that do not exist: the run ends without error and
\* without a package
C7_WitnessGhost ==
  /\ args.package_names = <<"ghost">>
  /\ pc = "done"
  /\ pkgs = <<>>
  /\ warnings = <<"ghost">>

\* the listing URLs of the API, and the chain behind each
VersionsBases == [n \in RegNames |-> VersionsBase(n)]
Bases == {PackagesBase} \cup {VersionsBases[n] : n \in RegNames}
ChainOf(base) ==
  IF base = PackagesBase THEN registry.pkg_pages
  ELSE registry.ver_pages[CHOOSE n \in RegNames : VersionsBases[n] = base]

\* a call of get_req starts with a request to a listing URL itself (one of
\* bases) and goes on with requests to the URLs the next links gave
CallStarts(bases) == {k \in 1..Len(trace) : IsListing(trace[k]) /\ trace[k].url \in bases}
Continues(bases, k) == k <= Len(trace) /\ IsListing(trace[k]) /\ trace[k].url \notin bases
CallEnd(bases, k) ==
  CHOOSE t \in k..Len(trace) :
    /\ \A j \in (k + 1)..t : Continues(bases, j)
    /\ ~Continues(bases, t + 1)

\* the call is over unless its last request is the last of the trace and
\* get_req holds a linked URL to ask next
CallOver(bases, k) ==
  ~( /\ CallEnd(bases, k) = Len(trace)
     /\ pc \in {"list_packages", "versions"}
     /\ req.url \notin bases )

RECURSIVE ConcatFirst(_, _)
ConcatFirst(chain, n) ==
  IF n = 0 THEN <<>> ELSE ConcatFirst(chain, n - 1) \o chain[n].json

\* C8: each call of get_req asks for the pages of the chain once each, in
\* order, the first with page = 1 and the later ones at the linked URL with
\* no page parameter (also when the link carries no page number); it never
\* asks beyond the page without a next link, where it returns, and what it
\* returns is the concatenation of the pages.
C8_Pagination ==
  LET bases == Bases IN
  /\ \A k \in CallStarts(bases) :
       LET base == trace[k].url
           chain == ChainOf(base)
           last == CallEnd(bases, k)
           n == last - k + 1
       IN /\ n <= Len(chain)
          /\ \A j \in 1..n :
               LET e == trace[k + j - 1] IN
                 /\ e.url = IF j = 1 THEN base ELSE NextUrl(base, j, chain[j - 1].cursor)
                 /\ ("page" \in DOMAIN e.params) <=> (j = 1)
                 /\ j = 1 => e.params["page"] = 1
                 /\ e.status_code = chain[j].status
          /\ Ok(trace[last].status_code) => (CallOver(bases, k) <=> n = Len(chain))
          /\ (~CallOver(bases, k) /\ Ok(trace[last].status_code)) =>
               req.result = ConcatFirst(chain, n)
  /\ \A j \in 1..Len(all_packages) :
       all_packages[j][2] = Listing(registry.ver_pages[all_packages[j][1]])
  /\ (args.package_names = <<>> /\ pc \notin {"start", "list_packages"}
        /\ \A p \in 1..Len(registry.pkg_pages) : Ok(registry.pkg_pages[p].status))
     => pkgs = FilterPackages(Listing(registry.pkg_pages), args.repo_name)

\* C8 happens: a listing of two pages or more, linked by a URL without a
\* page number, was read to its end and the run finished
C8_Witness ==
  /\ pc = "done"
  /\ \E k \in CallStarts(Bases) :
       LET chain == ChainOf(trace[k].url) IN
         /\ Len(chain) >= 2
         /\ chain[1].cursor
         /\ chain[1].json # <<>> /\ chain[2].json # <<>>
         /\ CallEnd(Bases, k) - k + 1 = Len(chain)

\* the packages get_list_packages finds, from what the API answered
FoundPackages ==
  IF args.package_names = <<>> THEN Listing(registry.pkg_pages)
  ELSE LET hits == SelectSeq(trace, LAMBDA e : IsLookup(e) /\ e.status_code = 200)
       IN [j \in 1..Len(hits) |->
             CHOOSE p \in Range(registry.packages) : p.url = hits[j].url]

ExpectedPackages ==
  SelectSeq(FoundPackages, LAMBDA p :
    /\ ~(Len(p.name) >= 8 /\ SubSeq(p.name, 1, 8) = "deleted_")
    /\ args.repo_name # "" =>
         (p.repository # <<>> /\ Lower(p.repository[1].name) = args.repo_name))

IsVersionsUrl(url) == \E n \in RegNames : Matches(VersionsBases[n], url)

\* C9: in simple mode (untagged_only false, older not above 0) the deletes
\* sent are one per package get_list_packages returns, at the package URL,
\* and the run lists no versions and inspects no manifest, whatever
\* except_untagged_multiplatform is.
C9_SimpleMode ==
  ~Filtered =>
    /\ \A k \in 1..Len(trace) :
         /\ trace[k].op # "INSPECT"
         /\ ~IsVersionsUrl(trace[k].url)
         /\ trace[k].op = "DELETE" =>
              \E p \in Range(registry.packages) : p.url = trace[k].url
    /\ Reported =>
         DeleteUrls = [j \in 1..Len(ExpectedPackages) |-> ExpectedPackages[j].url]

\* C9 happens: simple mode with except_untagged_multiplatform on, a listing
\* that holds a deleted_ package, and the remaining packages deleted
C9_Witness ==
  /\ ~Filtered
  /\ args.except_untagged_multiplatform
  /\ args.package_names = <<>>
  /\ pc = "done"
  /\ Len(FoundPackages) > Len(DeleteUrls)
  /\ Len(DeleteUrls) = 2

\* the number of tagged versions the registry lists for the kept packages
TaggedListed ==
  Cardinality(UNION {LET vs == Listing(registry.ver_pages[n])
                     IN {<<n, j>> : j \in {x \in 1..Len(vs) : Tagged(vs[x])}}
                     : n \in {pkg.name : pkg \in Range(pkgs)}})

Occurrences(name) == Cardinality({j \in 1..Len(pkgs) : pkgs[j].name = name})

\* C10: no delete is sent before every lookup, every page of every version
\* listing and every manifest inspection of the run is done, so a run that
\* raises on a lookup, a listing or an inspection has sent no delete.
C10_FetchBeforeDelete ==
  /\ \A j, k \in 1..Len(trace) :
       (j < k /\ trace[j].op = "DELETE") => trace[k].op = "DELETE"
  /\ Len(DeleteUrls) > 0 =>
       /\ args.package_names # <<>> =>
            Len(SelectSeq(trace, IsLookup)) = Len(args.package_names)
       /\ Filtered =>
            \A pkg \in Range(pkgs) :
              Len(SelectSeq(trace, LAMBDA e :
                    e.op = "GET" /\ Matches(VersionsBases[pkg.name], e.url)))
                = Len(registry.ver_pages[pkg.name]) * Occurrences(pkg.name)
       /\ (Filtered /\ args.except_untagged_multiplatform) =>
            Len(Sent("INSPECT")) = TaggedListed
  /\ (pc = "raised" /\ error[1] \in {"response", "manifest"}) => Len(DeleteUrls) = 0

\* C10 happens: lookups, version pages and inspections were all made, and
\* then deletes were sent
C10_Witness ==
  /\ Len(DeleteUrls) > 0
  /\ Len(Sent("INSPECT")) >= 2
  /\ Len(Sent("GET")) >= 3

\* C10, the abort: an inspection failed after listings and an earlier
\* inspection succeeded, and no delete was sent
C10_WitnessAbort ==
  /\ pc = "raised"
  /\ error[1] = "manifest"
  /\ Len(Sent("INSPECT")) >= 2
  /\ Len(DeleteUrls) = 0

====
